---- MODULE Spec2Model ----
(***************************************************************************)
(* Model of src/notify.py: a single-shot job that looks up the live        *)
(* broadcast of a YouTube channel, posts a notification to Bluesky when    *)
(* the broadcast id differs from the persisted marker, and then persists   *)
(* the id.  Every run of main() is a process that walks through the        *)
(* statements of main(); the state file and the social service are shared  *)
(* by all runs.                                                            *)
(*                                                                         *)
(* Strings are modelled as tokens (a video id, a title, a url) and texts   *)
(* as sequences of tokens; Python's None is the token None.                *)
(***************************************************************************)
EXTENDS Integers, Sequences, FiniteSets, TLC

\* ---------------------------------------------------------------- bounds
MaxRuns == 3

\* The run started by the scheduler and a run started by hand while the
\* scheduled one may be in progress.
Scheduled == "scheduled"
Manual == "manual"
Procs == {Scheduled, Manual}

\* ------------------------------------------------------------- constants
None == "<None>"
MarkerKey == "last_notified_video_id"
OtherKey == "updated_by"
Required == <<"YOUTUBE_API_KEY", "YOUTUBE_CHANNEL_ID", "BLUESKY_HANDLE", "BLUESKY_APP_PASSWORD">>
WatchPrefix == "https://www.youtube.com/watch?v="
TitleFallback == "TITLE_FALLBACK"
NowToken == "NOW"
DefaultTemplate == <<"LQ", "{title}", "RQ\n", "{url}", "LP", "{now}", "RP\n@YouTube LIVE">>
TierOrder_ascending == <<"default", "medium", "high", "maxres">>
TierOrder == <<"maxres", "high", "medium", "default">>
ThumbUrlOf == [t \in {"maxres", "high", "medium", "default"} |-> t]

\* Exit statuses of the process: the value returned by main(), or 1 when an
\* exception leaves main() uncaught (the interpreter prints a traceback).
ExitOk == 0
ExitUncaught == 1
ExitLookupFailed == 2
ExitPublishFailed == 3

\* ---------------------------------------------------------------- inputs
VideoIds == {"a", "b"}

\* Process environments: each required setting is unset, set to the empty
\* string, or set to a value; at most one setting is not set to a value.
EnvValues == {"unset", "empty", "set"}
Envs == {e \in [1..4 -> EnvValues] : Cardinality({i \in 1..4 : e[i] # "set"}) <= 1}

\* Contents of the state file.  kind "map" is a JSON object, val its keys.
EmptyMap == [k \in {} |-> None]
MapWith(id) == [k \in {MarkerKey} |-> id]
MapWithOther(id) == [k \in {MarkerKey, OtherKey} |-> IF k = MarkerKey THEN id ELSE "cron"]
FileOf(kind, val) == [kind |-> kind, val |-> val]
StateFiles ==
    {FileOf(k, EmptyMap) : k \in {"absent", "invalid", "badbytes", "list", "null"}}
    \cup {FileOf("map", EmptyMap)}
    \cup {FileOf("map", MapWith(id)) : id \in VideoIds}
    \cup {FileOf("map", MapWithOther("a"))}

\* Where STATE_PATH points: "nested" has a directory component and is
\* writable, "bare" has no directory component, "readonly" cannot be opened
\* for writing.
StatePaths == {"nested", "bare", "readonly"}

\* The template file and the MESSAGE_TEMPLATE setting.
TextOf(kind, text) == [kind |-> kind, text |-> text]
TemplateFiles ==
    {TextOf("absent", <<>>), TextOf("badbytes", <<>>), TextOf("text", <<"{title}", " ", "{url}">>)}
MessageTemplates == {TextOf("unset", <<>>)}

\* Responses of the search endpoint.
NoThumbs == [t \in {"maxres", "high", "medium", "default"} |-> "missing"]
OnlyDefault == [NoThumbs EXCEPT !["default"] = "url"]
Resp(status, body, items, id, videoId, title, thumbs) ==
    [status |-> status, body |-> body, items |-> items, id |-> id,
     videoId |-> videoId, title |-> title, thumbs |-> thumbs]
FailResp(status, body, items, id) == Resp(status, body, items, id, None, None, NoThumbs)
Responses ==
    {FailResp(s, "dict", "missing", "missing") : s \in {"transport_error", "http_error", "bad_body"}}
    \cup {FailResp("ok", "list", "missing", "missing")}
    \cup {FailResp("ok", "dict", i, "missing") : i \in {"missing", "null", "empty", "bad_item", "one"}}
    \cup {FailResp("ok", "dict", "one", i) : i \in {"null", "string", "dict"}}
    \cup {Resp("ok", "dict", "one", "dict", "", "T", OnlyDefault)}
    \cup {Resp("ok", "dict", "one", "dict", "a", "T", OnlyDefault),
          Resp("ok", "dict", "one", "dict", "a", None, NoThumbs),
          Resp("ok", "dict", "one", "dict", "b", "T", NoThumbs)}

\* ----------------------------------------------------------------- state
VARIABLES
    stateFile,        \* content of the file at STATE_PATH
    statePath,        \* kind of STATE_PATH
    log,              \* publisher calls, accepted posts and state writes, in order
    looked,           \* the outcomes of all lookups so far
    lastExit,         \* summary of the run that exited most recently
    runs,             \* number of runs started
    pc,               \* position of each run in main()
    template,         \* main: template
    state,            \* main: state
    last_notified,    \* main: last_notified
    resp,             \* the response the lookup of the run received
    live_video_id,    \* main: live_video_id
    title,            \* main: title
    thumb_url,        \* main: thumb_url
    msg,              \* main: msg
    image_bytes,      \* main: image_bytes
    decision,         \* which branch of main() the run took
    code,             \* exit status of the run
    trace,            \* I/O operations of the run, in order; "error" follows one that raised
    file0,            \* state file when the run started
    file1,            \* state file when the run exited
    prev0,            \* lastExit when the run started
    env,              \* environment of the run
    tfile,            \* the template file the run found
    tenv,             \* the MESSAGE_TEMPLATE setting of the run
    sent,             \* the arguments of the run's send_post call
    initFile          \* state file before the first run

vars == <<stateFile, statePath, log, looked, lastExit, runs, pc, template,
          state, last_notified, resp, live_video_id, title, thumb_url, msg,
          image_bytes, decision, code, trace, file0, file1, prev0, env,
          tfile, tenv, sent, initFile>>

\* ------------------------------------------------------- pure functions
\* A must_env that returns whatever os.getenv gave it.
must_env_unchecked(v) == TRUE

\* must_env raises when the setting is unset or empty.
must_env(v) == v = "set"

ConfigComplete(e) == \A i \in 1..Len(Required) : must_env(e[i])

\* load_state: the parsed JSON value, {} for a missing file or invalid JSON;
\* any other failure of open/json.load leaves the function as an exception.
load_state(f) ==
    CASE f.kind \in {"absent", "invalid"} -> [raised |-> FALSE, value |-> FileOf("map", EmptyMap)]
      [] f.kind = "badbytes" -> [raised |-> TRUE, value |-> FileOf("map", EmptyMap)]
      [] OTHER -> [raised |-> FALSE, value |-> f]

\* dict.get(key): None when the key is absent.
Get(m, k) == IF k \in DOMAIN m THEN m[k] ELSE None

\* An assignment that is lost: the mapping is written back as it was loaded.
SetMarker_unchanged(m, id) == m

\* A save that writes a fresh mapping holding only the marker.
SetMarker_fresh(m, id) == MapWith(id)

\* state["last_notified_video_id"] = id
SetMarker(m, id) == [k \in DOMAIN m \cup {MarkerKey} |-> IF k = MarkerKey THEN id ELSE m[k]]

\* load_template: the text of the file, None when it is missing; a file that
\* is not UTF-8 raises UnicodeDecodeError.
load_template(f) ==
    CASE f.kind = "absent" -> [raised |-> FALSE, value |-> TextOf("none", <<>>)]
      [] f.kind = "badbytes" -> [raised |-> TRUE, value |-> TextOf("none", <<>>)]
      [] OTHER -> [raised |-> FALSE, value |-> f]

\* main, lines 154-160: the file's text when it is a non-empty string, else
\* MESSAGE_TEMPLATE, else the built-in default.
ChooseTemplate(file_template, message_template) ==
    IF file_template.kind = "text" /\ Len(file_template.text) > 0
    THEN file_template.text
    ELSE IF message_template.kind = "text" THEN message_template.text ELSE DefaultTemplate

\* The chain of "or" of lines 70-75: the url of the first tier, in the order
\* of TierOrder, that carries a non-empty url; when there is none, what the
\* last operand gave: "" for an empty url, else None.
RECURSIVE FirstThumb(_, _)
FirstThumb(thumbs, i) ==
    IF i > Len(TierOrder) THEN None
    ELSE IF thumbs[TierOrder[i]] = "url" THEN ThumbUrlOf[TierOrder[i]]
    ELSE IF i = Len(TierOrder) /\ thumbs[TierOrder[i]] = "empty" THEN ""
    ELSE FirstThumb(thumbs, i + 1)

Triple(raised, v, t, u) == [raised |-> raised, video_id |-> v, title |-> t, thumb_url |-> u]

\* A lookup without raise_for_status: the body of an error response is read
\* as a result without items.
youtube_get_live_video_no_status_check(r) ==
    CASE r.status = "http_error" -> Triple(FALSE, None, None, None)
      [] r.status # "http_error" /\ (r.status # "ok" \/ r.body # "dict") -> Triple(TRUE, None, None, None)
      [] r.status = "ok" /\ r.body = "dict" /\ r.items \in {"missing", "null", "empty"} ->
            Triple(FALSE, None, None, None)
      [] r.status = "ok" /\ r.body = "dict" /\ r.items = "bad_item" -> Triple(TRUE, None, None, None)
      [] r.status = "ok" /\ r.body = "dict" /\ r.items = "one" /\ r.id = "string" ->
            Triple(TRUE, None, None, None)
      [] OTHER ->
            Triple(FALSE, IF r.id = "dict" THEN r.videoId ELSE None, r.title, FirstThumb(r.thumbs, 1))

\* A lookup without the 'if not items' guard: items[0] raises on no items.
youtube_get_live_video_no_items_guard(r) ==
    CASE r.status # "ok" -> Triple(TRUE, None, None, None)
      [] r.status = "ok" /\ r.body # "dict" -> Triple(TRUE, None, None, None)
      [] r.status = "ok" /\ r.body = "dict" /\ r.items \in {"missing", "null", "empty", "bad_item"} ->
            Triple(TRUE, None, None, None)
      [] r.status = "ok" /\ r.body = "dict" /\ r.items = "one" /\ r.id = "string" ->
            Triple(TRUE, None, None, None)
      [] OTHER ->
            Triple(FALSE, IF r.id = "dict" THEN r.videoId ELSE None, r.title, FirstThumb(r.thumbs, 1))

youtube_get_live_video(r) ==
    CASE r.status # "ok" -> Triple(TRUE, None, None, None)
      [] r.status = "ok" /\ r.body # "dict" -> Triple(TRUE, None, None, None)
      [] r.status = "ok" /\ r.body = "dict" /\ r.items \in {"missing", "null", "empty"} ->
            Triple(FALSE, None, None, None)
      [] r.status = "ok" /\ r.body = "dict" /\ r.items = "bad_item" -> Triple(TRUE, None, None, None)
      [] r.status = "ok" /\ r.body = "dict" /\ r.items = "one" /\ r.id = "string" ->
            Triple(TRUE, None, None, None)
      [] OTHER ->
            Triple(FALSE, IF r.id = "dict" THEN r.videoId ELSE None, r.title, FirstThumb(r.thumbs, 1))

\* Python truthiness of an optional string.
Truthy(v) == v # None /\ v # ""

\* str.replace on a text: every occurrence of the token becomes val.
RECURSIVE Replace(_, _, _)
Replace(s, tok, val) ==
    IF s = <<>> THEN <<>>
    ELSE (IF Head(s) = tok THEN val ELSE <<Head(s)>>) \o Replace(Tail(s), tok, val)

build_message(tmpl, video_id, ttl) ==
    LET url == <<WatchPrefix, video_id>>
        s1 == Replace(tmpl, "{url}", url)
        s2 == Replace(s1, "{video_id}", <<video_id>>)
        s3 == Replace(s2, "{title}", IF Truthy(ttl) THEN <<ttl>> ELSE <<>>)
    IN  Replace(s3, "{now}", <<NowToken>>)

\* ------------------------------------------------------------------ Init
NoResp == FailResp("none", "dict", "missing", "missing")
NoExit == [code |-> -1, live |-> None]
NoFile == FileOf("unset", EmptyMap)
AllSet == [i \in 1..4 |-> "set"]
NoText == TextOf("none", <<>>)
NoRequest == [sent |-> FALSE, text |-> <<>>, image |-> FALSE, facets |-> <<>>]

Init ==
    /\ stateFile \in StateFiles
    /\ statePath \in StatePaths
    /\ log = <<>>
    /\ looked = {}
    /\ lastExit = NoExit
    /\ runs = 0
    /\ pc = [p \in Procs |-> "idle"]
    /\ template = [p \in Procs |-> <<>>]
    /\ state = [p \in Procs |-> NoFile]
    /\ last_notified = [p \in Procs |-> None]
    /\ resp = [p \in Procs |-> NoResp]
    /\ live_video_id = [p \in Procs |-> None]
    /\ title = [p \in Procs |-> None]
    /\ thumb_url = [p \in Procs |-> None]
    /\ msg = [p \in Procs |-> <<>>]
    /\ image_bytes = [p \in Procs |-> None]
    /\ decision = [p \in Procs |-> "none"]
    /\ code = [p \in Procs |-> -1]
    /\ trace = [p \in Procs |-> <<>>]
    /\ file0 = [p \in Procs |-> NoFile]
    /\ file1 = [p \in Procs |-> NoFile]
    /\ prev0 = [p \in Procs |-> NoExit]
    /\ env = [p \in Procs |-> AllSet]
    /\ tfile = [p \in Procs |-> NoText]
    /\ tenv = [p \in Procs |-> NoText]
    /\ sent = [p \in Procs |-> NoRequest]
    /\ initFile = stateFile

\* ---------------------------------------------------- inputs of the runs
\* download_image: the bytes of the thumbnail, or an exception.
Downloads == {"fail", "", "img"}

\* post_to_bluesky: what the requests of the client may do: the login, the
\* upload or send_post raises, or the request succeeds.
PublishOutcomes == {"login_fails", "upload_fails", "post_fails", "ok"}

\* The inputs the steps of a run draw from.
Inputs ==
    [envs |-> Envs, templates |-> TemplateFiles, messages |-> MessageTemplates,
     responses |-> Responses, downloads |-> Downloads, outcomes |-> PublishOutcomes]

\* Runs started regardless of the runs in progress, on the inputs that matter
\* for the marker: a failed lookup, no broadcast or one broadcast, a
\* thumbnail or none, a post that is accepted or refused.
OverlapInputs ==
    [envs |-> {AllSet},
     templates |-> {TextOf("absent", <<>>)},
     messages |-> MessageTemplates,
     responses |-> {FailResp("transport_error", "dict", "missing", "missing"),
                    FailResp("ok", "dict", "empty", "missing"),
                    Resp("ok", "dict", "one", "dict", "a", "T", OnlyDefault),
                    Resp("ok", "dict", "one", "dict", "b", "T", NoThumbs)},
     downloads |-> {"img"},
     outcomes |-> {"post_fails", "ok"}]

\* Runs on the inputs that matter for the message: every kind of template
\* file, MESSAGE_TEMPLATE unset, empty or set, and broadcasts whose title is
\* plain, missing, or the text of a placeholder.
Whitespace == {" ", "\n"}

ComposeInputs ==
    [envs |-> {AllSet},
     templates |-> {TextOf("absent", <<>>), TextOf("badbytes", <<>>), TextOf("text", <<>>),
                    TextOf("text", <<" ">>), TextOf("text", <<" ", "\n">>),
                    TextOf("text", <<"{title}", " ", "{url}", " ", "{foo}", "{title}">>)},
     messages |-> {TextOf("unset", <<>>), TextOf("text", <<>>),
                   TextOf("text", <<"{video_id}", "{now}", "{url}">>)},
     responses |-> {FailResp("ok", "dict", "empty", "missing"),
                    Resp("ok", "dict", "one", "dict", "a", "T", NoThumbs),
                    Resp("ok", "dict", "one", "dict", "a", None, NoThumbs),
                    Resp("ok", "dict", "one", "dict", "a", "{now}", NoThumbs),
                    Resp("ok", "dict", "one", "dict", "a", "{url}", OnlyDefault)},
     downloads |-> {"img"},
     outcomes |-> {"post_fails", "ok"}]

\* Runs on every combination of thumbnail tiers in the result of the lookup:
\* each tier is missing, present without a url, present with an empty url,
\* or present with a url.
TierStates == {"missing", "nourl", "empty", "url"}

ThumbInputs ==
    [envs |-> {AllSet},
     templates |-> {TextOf("absent", <<>>)},
     messages |-> {TextOf("unset", <<>>)},
     responses |-> {Resp("ok", "dict", "one", "dict", "a", "T", th) :
                       th \in [{"maxres", "high", "medium", "default"} -> TierStates]},
     downloads |-> {"fail", "img"},
     outcomes |-> {"ok"}]

\* The inputs of the runs of a specification, by the name of the specification.
InputsOf(spec) ==
    CASE spec = "Spec" -> Inputs
      [] spec = "SpecOverlap" -> OverlapInputs
      [] spec = "SpecCompose" -> ComposeInputs
      [] spec = "SpecThumb" -> ThumbInputs

\* --------------------------------------------------------------- actions
\* The process of run p ends with exit status c while the state file is f.
Exit(p, c, f, d, live) ==
    /\ pc' = [pc EXCEPT ![p] = "done"]
    /\ code' = [code EXCEPT ![p] = c]
    /\ file1' = [file1 EXCEPT ![p] = f]
    /\ lastExit' = [code |-> c, live |-> live]

Goto(p, l) ==
    /\ pc' = [pc EXCEPT ![p] = l]
    /\ UNCHANGED <<code, file1, lastExit>>

Idle(p) == pc[p] \in {"idle", "done"}

\* main, lines 141-146: a run starts and fetches the required settings.
Begin(p, e) ==
    /\ Idle(p)
    /\ runs < MaxRuns
    /\ runs' = runs + 1
    /\ env' = [env EXCEPT ![p] = e]
    /\ file0' = [file0 EXCEPT ![p] = stateFile]
    /\ prev0' = [prev0 EXCEPT ![p] = lastExit]
    /\ template' = [template EXCEPT ![p] = <<>>]
    /\ state' = [state EXCEPT ![p] = NoFile]
    /\ last_notified' = [last_notified EXCEPT ![p] = None]
    /\ resp' = [resp EXCEPT ![p] = NoResp]
    /\ live_video_id' = [live_video_id EXCEPT ![p] = None]
    /\ title' = [title EXCEPT ![p] = None]
    /\ thumb_url' = [thumb_url EXCEPT ![p] = None]
    /\ msg' = [msg EXCEPT ![p] = <<>>]
    /\ image_bytes' = [image_bytes EXCEPT ![p] = None]
    /\ decision' = [decision EXCEPT ![p] = "none"]
    /\ trace' = [trace EXCEPT ![p] = <<>>]
    /\ tfile' = [tfile EXCEPT ![p] = NoText]
    /\ tenv' = [tenv EXCEPT ![p] = NoText]
    /\ sent' = [sent EXCEPT ![p] = NoRequest]
    /\ IF ConfigComplete(e)
       THEN /\ pc' = [pc EXCEPT ![p] = "template"]
            /\ code' = [code EXCEPT ![p] = -1]
            /\ file1' = [file1 EXCEPT ![p] = NoFile]
            /\ UNCHANGED lastExit
       ELSE Exit(p, ExitUncaught, stateFile, "none", None)
    /\ UNCHANGED <<stateFile, statePath, log, looked, initFile>>

\* A scheduled run: it starts when no other run is in progress.
Start(p, In) ==
    /\ p = Scheduled
    /\ \A q \in Procs : Idle(q)
    /\ \E e \in InputsOf(In).envs : Begin(p, e)

\* A run that may overlap the run in progress: the scheduled runs follow
\* one another, and one run is started by hand at any moment.
StartOverlapping(p, In) ==
    /\ p = Manual => pc[p] = "idle"
    /\ \E e \in InputsOf(In).envs : Begin(p, e)

\* main, lines 148-160: resolve the template.
ResolveTemplate(p, In) ==
    /\ pc[p] = "template"
    /\ \E f \in InputsOf(In).templates, m \in InputsOf(In).messages :
         LET r == load_template(f) IN
         /\ tfile' = [tfile EXCEPT ![p] = f]
         /\ tenv' = [tenv EXCEPT ![p] = m]
         /\ IF r.raised
            THEN /\ trace' = [trace EXCEPT ![p] = @ \o <<"template_read", "error">>]
                 /\ Exit(p, ExitUncaught, stateFile, "none", None)
                 /\ UNCHANGED template
            ELSE /\ trace' = [trace EXCEPT ![p] = Append(@, "template_read")]
                 /\ template' = [template EXCEPT ![p] = ChooseTemplate(r.value, m)]
                 /\ Goto(p, "load")
    /\ UNCHANGED <<stateFile, statePath, log, looked, runs, state, last_notified,
                   resp, live_video_id, title, thumb_url, msg, image_bytes, decision, file0, prev0, env,
                   sent, initFile>>

\* main, lines 162-164: read the state file and the marker.
LoadState(p) ==
    /\ pc[p] = "load"
    /\ LET r == load_state(stateFile) IN
         /\ IF r.raised
            THEN /\ trace' = [trace EXCEPT ![p] = @ \o <<"state_read", "error">>]
                 /\ Exit(p, ExitUncaught, stateFile, "none", None)
                 /\ UNCHANGED <<state, last_notified>>
            ELSE /\ trace' = [trace EXCEPT ![p] = Append(@, "state_read")]
                 /\ state' = [state EXCEPT ![p] = r.value]
                 /\ IF r.value.kind = "map"
                    THEN /\ last_notified' = [last_notified EXCEPT ![p] = Get(r.value.val, MarkerKey)]
                         /\ Goto(p, "lookup")
                    ELSE /\ Exit(p, ExitUncaught, stateFile, "none", None)
                         /\ UNCHANGED last_notified
    /\ UNCHANGED <<stateFile, statePath, log, looked, runs, template,
                   resp, live_video_id, title, thumb_url, msg, image_bytes, decision, file0, prev0, env,
                   tfile, tenv, sent, initFile>>

\* What a lookup told the run: "fail", None, or the broadcast id.
Outcome(t) == IF t.raised THEN "fail" ELSE IF Truthy(t.video_id) THEN t.video_id ELSE None

\* main, lines 166-171: the lookup.
Lookup(p, In) ==
    /\ pc[p] = "lookup"
    /\ \E r \in InputsOf(In).responses :
         LET t == youtube_get_live_video(r) IN
         /\ resp' = [resp EXCEPT ![p] = r]
         /\ looked' = looked \cup {Outcome(t)}
         /\ IF t.raised
            THEN /\ trace' = [trace EXCEPT ![p] = @ \o <<"lookup", "error">>]
                 /\ Exit(p, ExitLookupFailed, stateFile, "failed", None)
                 /\ decision' = [decision EXCEPT ![p] = "failed"]
                 /\ UNCHANGED <<live_video_id, title, thumb_url>>
            ELSE /\ trace' = [trace EXCEPT ![p] = Append(@, "lookup")]
                 /\ live_video_id' = [live_video_id EXCEPT ![p] = t.video_id]
                 /\ title' = [title EXCEPT ![p] = t.title]
                 /\ thumb_url' = [thumb_url EXCEPT ![p] = t.thumb_url]
                 /\ Goto(p, "decide")
                 /\ UNCHANGED decision
    /\ UNCHANGED <<stateFile, statePath, log, runs, template, state, last_notified,
                   msg, image_bytes, file0, prev0, env,
                   tfile, tenv, sent, initFile>>

\* A comparison that never finds the broadcast notified.
AlreadyNotified_never(live, last) == FALSE

\* A comparison with the sense inverted.
AlreadyNotified_inverted(live, last) == live # last

\* main, line 179: the 'already notified' comparison.
AlreadyNotified(live, last) == live = last

\* main, lines 173-187: no broadcast, already notified, or compose the message.
Decide(p) ==
    /\ pc[p] = "decide"
    /\ IF ~Truthy(live_video_id[p])
       THEN /\ Exit(p, ExitOk, stateFile, "idle", None)
            /\ decision' = [decision EXCEPT ![p] = "idle"]
            /\ UNCHANGED <<title, msg>>
       ELSE IF AlreadyNotified(live_video_id[p], last_notified[p])
       THEN /\ Exit(p, ExitOk, stateFile, "skip", live_video_id[p])
            /\ decision' = [decision EXCEPT ![p] = "skip"]
            /\ UNCHANGED <<title, msg>>
       ELSE LET t == IF Truthy(title[p]) THEN title[p] ELSE TitleFallback IN
            /\ title' = [title EXCEPT ![p] = t]
            /\ msg' = [msg EXCEPT ![p] = build_message(template[p], live_video_id[p], t)]
            /\ decision' = [decision EXCEPT ![p] = "notify"]
            /\ Goto(p, "download")
    /\ UNCHANGED <<stateFile, statePath, log, looked, runs, template, state, last_notified,
                   resp, live_video_id, thumb_url, image_bytes, trace, file0, prev0, env,
                   tfile, tenv, sent, initFile>>

\* main, lines 189-194: fetch the thumbnail when there is a thumbnail url.
Download(p, In) ==
    /\ pc[p] = "download"
    /\ IF Truthy(thumb_url[p])
       THEN \E d \in InputsOf(In).downloads :
              /\ IF d = "fail"
                 THEN /\ trace' = [trace EXCEPT ![p] = @ \o <<"download", "error">>]
                      /\ Exit(p, ExitPublishFailed, stateFile, "notify", live_video_id[p])
                      /\ UNCHANGED image_bytes
                 ELSE /\ trace' = [trace EXCEPT ![p] = Append(@, "download")]
                      /\ image_bytes' = [image_bytes EXCEPT ![p] = d]
                      /\ Goto(p, "publish")
       ELSE /\ Goto(p, "publish")
            /\ UNCHANGED <<image_bytes, trace>>
    /\ UNCHANGED <<stateFile, statePath, log, looked, runs, template, state, last_notified,
                   resp, live_video_id, title, thumb_url, msg, decision, file0, prev0, env,
                   tfile, tenv, sent, initFile>>

\* post_to_bluesky, lines 118-137: what client.send_post is called with: the
\* text, an image embed when there are image bytes, and no facets.
send_post(text, image) ==
    [sent |-> TRUE, text |-> text, image |-> Truthy(image), facets |-> <<>>]

\* A publisher that swallows the exceptions of the client.
post_to_bluesky_swallowing(op, outcome) ==
    [raised |-> FALSE, io |-> IF outcome = "ok" THEN <<op>> ELSE <<op, "error">>]

\* post_to_bluesky, lines 114-137: one request of the client.  The function
\* has no try: an exception of the client leaves it.
post_to_bluesky(op, outcome) ==
    [raised |-> outcome # "ok", io |-> IF outcome = "ok" THEN <<op>> ELSE <<op, "error">>]

\* The outcomes of one request of the client, among those of the inputs.
OutcomesOf(op, outcomes) ==
    outcomes \cap {"ok", CASE op = "login" -> "login_fails"
                           [] op = "upload" -> "upload_fails"
                           [] op = "post" -> "post_fails"}

\* main, lines 197-202: post_to_bluesky is called.
Publish(p) ==
    /\ pc[p] = "publish"
    /\ log' = Append(log, [ev |-> "call", id |-> live_video_id[p]])
    /\ Goto(p, "login")
    /\ UNCHANGED <<stateFile, statePath, looked, runs, template, state, last_notified,
                   resp, live_video_id, title, thumb_url, msg, image_bytes, decision, file0, prev0, env,
                   tfile, tenv, initFile, trace, sent>>

\* post_to_bluesky, lines 115-116: the login; main, lines 203-205: any
\* exception ends the run with status 3.
Login(p, In) ==
    /\ pc[p] = "login"
    /\ \E o \in OutcomesOf("login", InputsOf(In).outcomes) :
         LET r == post_to_bluesky("login", o) IN
         /\ trace' = [trace EXCEPT ![p] = @ \o r.io]
         /\ IF r.raised
            THEN Exit(p, ExitPublishFailed, stateFile, "notify", live_video_id[p])
            ELSE Goto(p, IF Truthy(image_bytes[p]) THEN "upload" ELSE "post")
    /\ UNCHANGED <<stateFile, statePath, looked, runs, template, state, last_notified,
                   resp, live_video_id, title, thumb_url, msg, image_bytes, decision, file0, prev0, env,
                   tfile, tenv, initFile, log, sent>>

\* post_to_bluesky, lines 118-120: the upload of the image.
Upload(p, In) ==
    /\ pc[p] = "upload"
    /\ \E o \in OutcomesOf("upload", InputsOf(In).outcomes) :
         LET r == post_to_bluesky("upload", o) IN
         /\ trace' = [trace EXCEPT ![p] = @ \o r.io]
         /\ IF r.raised
            THEN Exit(p, ExitPublishFailed, stateFile, "notify", live_video_id[p])
            ELSE Goto(p, "post")
    /\ UNCHANGED <<stateFile, statePath, looked, runs, template, state, last_notified,
                   resp, live_video_id, title, thumb_url, msg, image_bytes, decision, file0, prev0, env,
                   tfile, tenv, initFile, log, sent>>

\* post_to_bluesky, lines 122-137: send_post, and the return to main.
Post(p, In) ==
    /\ pc[p] = "post"
    /\ \E o \in OutcomesOf("post", InputsOf(In).outcomes) :
         LET r == post_to_bluesky("post", o) IN
         /\ trace' = [trace EXCEPT ![p] = @ \o r.io]
         /\ sent' = [sent EXCEPT ![p] = send_post(msg[p], image_bytes[p])]
         /\ IF r.raised
            THEN /\ Exit(p, ExitPublishFailed, stateFile, "notify", live_video_id[p])
                 /\ UNCHANGED log
            ELSE /\ log' = Append(log, [ev |-> "posted", id |-> live_video_id[p]])
                 /\ Goto(p, "save")
    /\ UNCHANGED <<stateFile, statePath, looked, runs, template, state, last_notified,
                   resp, live_video_id, title, thumb_url, msg, image_bytes, decision, file0, prev0, env,
                   tfile, tenv, initFile>>

\* json.dump(state, f, ensure_ascii=False, indent=2): the number of bytes of
\* the document of a mapping.  An entry is two spaces, the key and the value
\* in quotes and ": " between them; entries are separated by ",\n" and
\* enclosed in "{\n" and "\n}"; the empty mapping is "{}".
\* The id "a" stands for an id of six characters, "b" for one of two.
StrLen(tok) ==
    CASE tok = MarkerKey -> 22
      [] tok = OtherKey -> 10
      [] tok = "cron" -> 4
      [] tok = "a" -> 6
      [] tok = "b" -> 2
      [] OTHER -> 0

RECURSIVE EntriesLen(_, _)
EntriesLen(m, keys) ==
    IF keys = {} THEN 0
    ELSE LET k == CHOOSE x \in keys : TRUE
         IN  StrLen(k) + StrLen(m[k]) + 8 + EntriesLen(m, keys \ {k})

DocLen(m) ==
    IF DOMAIN m = {} THEN 2
    ELSE 2 + EntriesLen(m, DOMAIN m) + 2 * (Cardinality(DOMAIN m) - 1) + 2

\* The number of bytes of the state file: a file that is not valid JSON
\* carries in val the document whose length it has (none: it is empty).
FileLen(f) ==
    IF f.kind = "map" \/ (f.kind = "invalid" /\ f.val # EmptyMap) THEN DocLen(f.val) ELSE 0

\* save_state, line 41, on a file opened at line 40: the document is written
\* at offset 0 and the file is not truncated again.  What another run wrote
\* beyond the end of the document stays, and the file is not valid JSON.
write_at_start(f, doc) ==
    IF FileLen(f) > DocLen(doc.val) THEN FileOf("invalid", f.val) ELSE doc

\* save_state, lines 39-40: makedirs of the directory component, then open
\* for writing, which truncates the file.  makedirs("") raises, and so does
\* open on a file that cannot be written.
save_open(path) ==
    CASE path = "bare" -> [raised |-> TRUE, io |-> <<"makedirs", "error">>]
      [] path = "readonly" -> [raised |-> TRUE, io |-> <<"makedirs", "open_w", "error">>]
      [] OTHER -> [raised |-> FALSE, io |-> <<"makedirs", "open_w">>]

\* main, line 208 and save_state up to the open: set the marker in the
\* loaded mapping and open the state file.
SaveOpen(p) ==
    /\ pc[p] = "save"
    /\ state' = [state EXCEPT ![p] = FileOf("map", SetMarker(@.val, live_video_id[p]))]
    /\ LET r == save_open(statePath) IN
         /\ trace' = [trace EXCEPT ![p] = @ \o r.io]
         /\ IF r.raised
            THEN /\ Exit(p, ExitUncaught, stateFile, "notify", live_video_id[p])
                 /\ UNCHANGED stateFile
            ELSE /\ stateFile' = FileOf("invalid", EmptyMap)
                 /\ Goto(p, "dump")
    /\ UNCHANGED <<statePath, log, looked, runs, template, last_notified, resp,
                   live_video_id, title, thumb_url, msg, image_bytes, decision, file0, prev0, env,
                   tfile, tenv, sent, initFile>>

\* save_state, line 41, and main, lines 211-212: write the mapping, return 0.
SaveDump(p) ==
    /\ pc[p] = "dump"
    /\ stateFile' = write_at_start(stateFile, state[p])
    /\ trace' = [trace EXCEPT ![p] = Append(@, "state_write")]
    /\ log' = Append(log, [ev |-> "persist", id |-> live_video_id[p]])
    /\ Exit(p, ExitOk, write_at_start(stateFile, state[p]), "notify", live_video_id[p])
    /\ UNCHANGED <<statePath, looked, runs, template, state, last_notified,
                   resp, live_video_id, title, thumb_url, msg, image_bytes, decision,
                   file0, prev0, env,
                   tfile, tenv, sent, initFile>>

Step(p, In) ==
    \/ ResolveTemplate(p, In)
    \/ LoadState(p)
    \/ Lookup(p, In)
    \/ Decide(p)
    \/ Download(p, In)
    \/ Publish(p)
    \/ Login(p, In)
    \/ Upload(p, In)
    \/ Post(p, In)
    \/ SaveOpen(p)
    \/ SaveDump(p)

\* Runs started by a scheduler that waits for the previous run to exit.
Next == \E p \in Procs : Start(p, "Spec") \/ Step(p, "Spec")

Spec == Init /\ [][Next]_vars

InitOverlap ==
    /\ Init
    /\ stateFile \in {FileOf("absent", EmptyMap), FileOf("map", MapWith("a")),
                      FileOf("map", MapWithOther("a"))}
    /\ statePath \in {"nested", "bare"}

NextOverlap == \E p \in Procs : StartOverlapping(p, "SpecOverlap") \/ Step(p, "SpecOverlap")

SpecOverlap == InitOverlap /\ [][NextOverlap]_vars

InitCompose ==
    /\ Init
    /\ stateFile \in {FileOf("absent", EmptyMap), FileOf("map", MapWith("a"))}
    /\ statePath = "nested"

NextCompose == \E p \in Procs : Start(p, "SpecCompose") \/ Step(p, "SpecCompose")

SpecCompose == InitCompose /\ [][NextCompose]_vars

InitThumb ==
    /\ Init
    /\ stateFile = FileOf("map", MapWith("b"))
    /\ statePath = "nested"

NextThumb == \E p \in Procs : Start(p, "SpecThumb") \/ Step(p, "SpecThumb")

SpecThumb == InitThumb /\ [][NextThumb]_vars

TypeOK ==
    /\ stateFile \in StateFiles \cup {FileOf("invalid", EmptyMap)}
                    \cup {FileOf(k, SetMarker(f.val, v)) :
                             k \in {"map", "invalid"}, f \in StateFiles, v \in VideoIds}
    /\ statePath \in StatePaths
    /\ runs \in 0..MaxRuns
    /\ \A p \in Procs : code[p] \in {-1, 0, 1, 2, 3}
    /\ \A p \in Procs : pc[p] \in {"idle", "template", "load", "lookup", "decide", "download",
                                   "publish", "login", "upload", "post", "save", "dump", "done"}

\* ---------------------------------------------------------- observations
Done(p) == pc[p] = "done"

\* The run performed the I/O operation ev.
Has(p, ev) == \E i \in 1..Len(trace[p]) : trace[p][i] = ev

\* The I/O operation op of the run raised.
Failed(p, op) == \E i \in 1..(Len(trace[p]) - 1) : trace[p][i] = op /\ trace[p][i + 1] = "error"

PublisherIO == {"download", "login", "upload", "post"}

NoPublisherCall(p) == \A ev \in PublisherIO : ~Has(p, ev)

PublishFailed(p) == \E op \in PublisherIO : Failed(p, op)

\* The social service accepted the post of the run.
Published(p) == Has(p, "post") /\ ~Failed(p, "post")

\* The run neither opened nor wrote the state file, and the file at its exit
\* is the file at its start.
StateUntouched(p) == ~Has(p, "open_w") /\ ~Has(p, "state_write") /\ file1[p] = file0[p]

\* The marker a state file holds.
Marker(f) == IF f.kind = "map" THEN Get(f.val, MarkerKey) ELSE None

Count(ev) == Cardinality({i \in 1..Len(log) : log[i].ev = ev})

\* The lookup found no broadcast: no items, or one item without a usable id.
EmptyResult(r) ==
    /\ r.status = "ok"
    /\ r.body = "dict"
    /\ \/ r.items \in {"missing", "null", "empty"}
       \/ r.items = "one" /\ r.id \in {"missing", "null"}
       \/ r.items = "one" /\ r.id = "dict" /\ ~Truthy(r.videoId)

\* ------------------------------------------------------------------ C1
\* C1 as stated: over non-overlapping runs whose lookups all return the same
\* broadcast id, post_to_bluesky is invoked in at most one run.
C1_AtMostOneInvocation ==
    \A x \in VideoIds : looked \subseteq {x} => Count("call") <= 1

\* C1 amended: over non-overlapping runs whose lookups all return the same
\* broadcast id x, post_to_bluesky is invoked only for x and only by runs
\* whose stored marker differs from x, at most one run persists x, and no run
\* invokes post_to_bluesky after x has been persisted.  Until x is persisted
\* the invocation is repeated: a run reads the marker x only when x was the
\* initial marker or has been persisted, a run that reads another marker
\* takes the notify branch, and a run on the notify branch invokes
\* post_to_bluesky unless its thumbnail download raised.
C1_NoInvocationOncePersisted ==
    \A x \in VideoIds : looked \subseteq {x} =>
        /\ \A i \in 1..Len(log) : log[i].id = x
        /\ \A p \in Procs : Has(p, "login") => last_notified[p] # x
        /\ Count("persist") <= 1
        /\ \A i, j \in 1..Len(log) : i < j /\ log[i].ev = "persist" => log[j].ev # "call"
        /\ \A p \in Procs : (Has(p, "lookup") /\ pc[p] # "decide") =>
              /\ last_notified[p] = x => (Marker(initFile) = x \/ Count("persist") = 1)
              /\ last_notified[p] # x => decision[p] = "notify"
              /\ (Done(p) /\ decision[p] = "notify" /\ ~Failed(p, "download")) =>
                    Has(p, "login")

\* A failed publish, a retry that is accepted and persisted, then a skip.
C1_Witness ==
    /\ looked = {"a"}
    /\ runs = 3
    /\ Count("call") = 2
    /\ Count("persist") = 1
    /\ Done(Scheduled)
    /\ decision[Scheduled] = "skip"

\* ------------------------------------------------------------------ C2
\* C2: a run that got as far as reading the state file exits with 0, 2 or 3,
\* and the state file differs from the one it started with exactly when it
\* exits with 0 on the notify branch.
C2_ExitCodeTotality ==
    \A p \in Procs : Done(p) /\ Has(p, "state_read") =>
        /\ code[p] \in {ExitOk, ExitLookupFailed, ExitPublishFailed}
        /\ (file1[p] # file0[p]) <=> (code[p] = ExitOk /\ decision[p] = "notify")

\* ------------------------------------------------------------------ C3
\* C3: when the post of a run was accepted, the run exits with 0 and the
\* state file holds the id of the broadcast at that moment.
C3_PersistedAfterPublish ==
    \A p \in Procs : Done(p) /\ Published(p) =>
        /\ code[p] = ExitOk
        /\ Marker(file1[p]) = live_video_id[p]

\* ------------------------------------------------------------------ C4
\* C4: a run in which a step of publishing raised exits with 3 and leaves the
\* state file as it found it, without the id of the broadcast; and a run
\* that follows a run which exited with 3 for broadcast x and looks up x
\* takes the notify branch again.
C4_PublishFailureIsRetried ==
    /\ \A p \in Procs : PublishFailed(p) =>
          /\ Done(p)
          /\ code[p] = ExitPublishFailed
          /\ StateUntouched(p)
          /\ Marker(file1[p]) # live_video_id[p]
    /\ \A p \in Procs :
          (/\ prev0[p].code = ExitPublishFailed
           /\ Truthy(live_video_id[p])
           /\ live_video_id[p] = prev0[p].live
           /\ pc[p] # "decide") => decision[p] = "notify"

\* The run after a failed publish of "a" looked up "a" and published it.
C4_Witness ==
    \E p \in Procs :
        /\ prev0[p].code = ExitPublishFailed
        /\ prev0[p].live = "a"
        /\ live_video_id[p] = "a"
        /\ Done(p)
        /\ Published(p)
        /\ code[p] = ExitOk

\* ------------------------------------------------------------------ C5
\* C5: a run whose lookup returns the id that is the stored marker exits with
\* 0 without any publisher I/O and without touching the state file.
C5_SkipWhenAlreadyNotified ==
    \A p \in Procs :
        (Truthy(live_video_id[p]) /\ live_video_id[p] = last_notified[p] /\ pc[p] # "decide") =>
            /\ Done(p)
            /\ code[p] = ExitOk
            /\ decision[p] = "skip"
            /\ NoPublisherCall(p)
            /\ StateUntouched(p)

C5_Witness ==
    \E p \in Procs :
        /\ Done(p)
        /\ live_video_id[p] = "a"
        /\ last_notified[p] = "a"
        /\ decision[p] = "skip"
        /\ file1[p] = FileOf("map", MapWithOther("a"))

\* ------------------------------------------------------------------ C6
\* C6: a run whose lookup met a transport error, a non-2xx status or an
\* unparsable body exits with 2, not as 'no broadcast', without any publisher
\* I/O and without touching the state file.
C6_LookupFailureIsFatal ==
    \A p \in Procs : resp[p].status \in {"transport_error", "http_error", "bad_body"} =>
        /\ Done(p)
        /\ code[p] = ExitLookupFailed
        /\ decision[p] = "failed"
        /\ NoPublisherCall(p)
        /\ StateUntouched(p)

C6_Witness ==
    \E p \in Procs :
        /\ Done(p)
        /\ resp[p].status = "http_error"
        /\ code[p] = ExitLookupFailed
        /\ file1[p] = FileOf("map", MapWith("a"))

\* ------------------------------------------------------------------ C7
\* C7: a run whose lookup returns no items, or one item without a usable
\* video id, exits with 0 as 'no broadcast', without any publisher I/O and
\* without touching the state file.
C7_NoBroadcastIsIdle ==
    \A p \in Procs : (EmptyResult(resp[p]) /\ pc[p] # "decide") =>
        /\ Done(p)
        /\ code[p] = ExitOk
        /\ decision[p] = "idle"
        /\ NoPublisherCall(p)
        /\ StateUntouched(p)

\* One item without a video id, and no state file.
C7_Witness ==
    \E p \in Procs :
        /\ Done(p)
        /\ resp[p].items = "one"
        /\ resp[p].id = "dict"
        /\ resp[p].videoId = None
        /\ decision[p] = "idle"
        /\ file1[p].kind = "absent"

\* ------------------------------------------------------------------ C8
\* C8: two runs that both read a marker other than x and both looked up x
\* both take the notify branch, whatever the state file holds by then, and
\* when the posts of both were accepted the service holds two posts for x.
C8_BothPassTheCheck ==
    \A p, q \in Procs :
        (/\ p # q
         /\ Truthy(live_video_id[p])
         /\ live_video_id[q] = live_video_id[p]
         /\ last_notified[p] # live_video_id[p]
         /\ last_notified[q] # live_video_id[q]
         /\ pc[p] # "decide"
         /\ pc[q] # "decide") =>
            /\ decision[p] = "notify"
            /\ decision[q] = "notify"
            /\ (Published(p) /\ Published(q)) =>
                  Cardinality({i \in 1..Len(log) :
                                 log[i] = [ev |-> "posted", id |-> live_video_id[p]]}) >= 2

\* Both runs started from the same state file, both posts for "a" were
\* accepted before either run wrote the state file.
C8_DoublePost ==
    /\ \A p \in Procs : Done(p) /\ code[p] = ExitOk /\ live_video_id[p] = "a" /\ Published(p)
    /\ file0[Scheduled] = file0[Manual]
    /\ Len(log) = 6
    /\ log[2] = [ev |-> "posted", id |-> "a"]
    /\ log[4] = [ev |-> "posted", id |-> "a"]
    /\ log[5].ev = "persist"
    /\ log[6].ev = "persist"

\* ------------------------------------------------------------------ C9
\* C9: a run that read a state file which is missing, not valid JSON, or
\* valid JSON that is not an object has no marker and goes on to the lookup.
C9_StateReadNeverFails ==
    \A p \in Procs :
        (/\ file0[p].kind \in {"absent", "invalid", "list", "null"}
         /\ Has(p, "state_read")
         /\ pc[p] # "load") =>
            /\ last_notified[p] = None
            /\ Done(p) => Has(p, "lookup")

\* ----------------------------------------------------------------- C10
\* C10: a run whose environment lacks a required setting exits with a
\* non-zero status without any I/O: no file read, no lookup, no publisher
\* call, no state write.
C10_ConfigErrorBeforeIO ==
    \A p \in Procs : (pc[p] # "idle" /\ \E i \in 1..Len(Required) : env[p][i] = "unset") =>
        /\ Done(p)
        /\ code[p] # ExitOk
        /\ trace[p] = <<>>
        /\ file1[p] = file0[p]

\* BLUESKY_APP_PASSWORD, the last setting fetched, is the one missing.
C10_Witness ==
    \E p \in Procs :
        /\ Done(p)
        /\ env[p][4] = "unset"
        /\ code[p] = ExitUncaught
        /\ trace[p] = <<>>

\* ----------------------------------------------------------------- C11
\* A text without any character other than whitespace (str.strip() == "").
Blank(s) == \A i \in 1..Len(s) : s[i] \in Whitespace

\* C11: the template of a run is the text of the template file when the file
\* is present and not blank after trimming, else MESSAGE_TEMPLATE when it is
\* set, else the built-in default.
C11_TemplatePrecedence ==
    \A p \in Procs : (Has(p, "template_read") /\ ~Failed(p, "template_read")) =>
        template[p] =
            IF tfile[p].kind = "text" /\ ~Blank(tfile[p].text) THEN tfile[p].text
            ELSE IF tenv[p].kind = "text" THEN tenv[p].text
            ELSE DefaultTemplate

\* ----------------------------------------------------------------- C12
\* What a placeholder stands for, and any other token for itself.
Subst(tok, video_id, ttl) ==
    CASE tok = "{url}" -> <<WatchPrefix, video_id>>
      [] tok = "{video_id}" -> <<video_id>>
      [] tok = "{title}" -> <<ttl>>
      [] tok = "{now}" -> <<NowToken>>
      [] OTHER -> <<tok>>

\* Every token of the template substituted once, the inserted text left alone.
RECURSIVE SinglePass(_, _, _)
SinglePass(tmpl, video_id, ttl) ==
    IF tmpl = <<>> THEN <<>>
    ELSE Subst(Head(tmpl), video_id, ttl) \o SinglePass(Tail(tmpl), video_id, ttl)

\* C12: the message of a run is its template with every occurrence of the
\* four placeholders replaced once by its value, inserted text not being
\* substituted again and unknown placeholders left verbatim.
C12_LiteralSubstitution ==
    \A p \in Procs : decision[p] = "notify" =>
        msg[p] = SinglePass(template[p], live_video_id[p], title[p])

\* ----------------------------------------------------------------- C13
\* C13: the text handed to send_post is never blank.
C13_PostTextNeverBlank ==
    \A p \in Procs : sent[p].sent => ~Blank(sent[p].text)

\* ----------------------------------------------------------------- C14
\* C14: a run whose template file is not valid UTF-8 goes on to the lookup.
C14_TemplateDecodeNeverFails ==
    \A p \in Procs : (tfile[p].kind = "badbytes" /\ Done(p)) => Has(p, "lookup")

\* ----------------------------------------------------------------- C15
\* The tokens that stand for text outside ASCII, and the length of the UTF-8
\* encoding of every token (a video id has the length StrLen gives it, any
\* other token counts as one byte).
NonAscii == {"LQ", "RQ\n", "LP", "RP\n@YouTube LIVE", TitleFallback}

ByteLen(tok) ==
    CASE tok = "LQ" -> 3
      [] tok = "RQ\n" -> 4
      [] tok = "LP" -> 3
      [] tok = "RP\n@YouTube LIVE" -> 30
      [] tok = TitleFallback -> 9
      [] tok = WatchPrefix -> 32
      [] tok = NowToken -> 16
      [] tok \in VideoIds -> StrLen(tok)
      [] OTHER -> 1

RECURSIVE Bytes(_)
Bytes(s) == IF s = <<>> THEN 0 ELSE ByteLen(Head(s)) + Bytes(Tail(s))

\* The facet that addresses the watch URL starting at token i of the text.
FacetAt(text, i) ==
    [byteStart |-> Bytes(SubSeq(text, 1, i - 1)),
     byteEnd |-> Bytes(SubSeq(text, 1, i + 1)),
     uri |-> <<text[i], text[i + 1]>>]

\* C15: a send_post call whose text has the watch URL after text outside
\* ASCII carries a link facet whose byte range is that of the URL in the
\* UTF-8 encoding of the text.
C15_LinkFacetByteOffsets ==
    \A p \in Procs : sent[p].sent =>
        \A i \in 1..(Len(sent[p].text) - 1) :
            (sent[p].text[i] = WatchPrefix /\ \E j \in 1..(i - 1) : sent[p].text[j] \in NonAscii) =>
                \E k \in 1..Len(sent[p].facets) : sent[p].facets[k] = FacetAt(sent[p].text, i)

\* ----------------------------------------------------------------- C16
\* C16: a run on the notify branch that has no thumbnail url, or whose
\* thumbnail download raised, and whose login and post did not raise, has a
\* text-only post accepted and then persists the id of the broadcast.
C16_TextOnlyWithoutThumbnail ==
    \A p \in Procs :
        (/\ Done(p)
         /\ decision[p] = "notify"
         /\ ~Truthy(thumb_url[p]) \/ Failed(p, "download")
         /\ ~Failed(p, "login")
         /\ ~Failed(p, "post")) =>
            /\ Published(p)
            /\ ~sent[p].image
            /\ statePath = "nested" => (code[p] = ExitOk /\ Marker(file1[p]) = live_video_id[p])

\* Number of times the run performed the I/O operation ev.
CountT(p, ev) == Cardinality({i \in 1..Len(trace[p]) : trace[p][i] = ev})

\* The operation op was performed, without raising, before position i.
SucceededBefore(p, op, i) ==
    \E j \in 1..(i - 1) : trace[p][j] = op /\ trace[p][j + 1] # "error"

\* The order of the steps of one run: the lookup after the state read, the
\* publisher after a lookup that succeeded and a comparison that found a
\* differing id, the state write after a post that was accepted; the state
\* written and the publisher invoked at most once.
StepOrder(p) ==
    /\ CountT(p, "state_write") <= 1
    /\ \A op \in PublisherIO : CountT(p, op) <= 1
    /\ \A i \in 1..Len(trace[p]) :
         /\ trace[p][i] = "lookup" => SucceededBefore(p, "state_read", i)
         /\ trace[p][i] \in PublisherIO =>
               /\ SucceededBefore(p, "lookup", i)
               /\ decision[p] = "notify"
               /\ live_video_id[p] # last_notified[p]
         /\ trace[p][i] \in {"makedirs", "open_w", "state_write"} =>
               SucceededBefore(p, "post", i)

\* C17 as stated: every finished run has read the state file exactly once,
\* written it at most once, invoked the publisher at most once, and taken
\* its steps in the order state read, lookup, comparison, publish, write.
C17_ReadExactlyOnce ==
    \A p \in Procs : Done(p) => (CountT(p, "state_read") = 1 /\ StepOrder(p))

\* C17: a run reads the state file at most once, and exactly once when it
\* reaches the lookup; it writes the state at most once and invokes the
\* publisher at most once; no publisher call happens before the lookup has
\* succeeded and the comparison has found a differing id, and no state write
\* before the publisher has returned successfully.
C17_StepOrder ==
    \A p \in Procs :
        /\ CountT(p, "state_read") <= 1
        /\ Has(p, "lookup") => CountT(p, "state_read") = 1
        /\ StepOrder(p)

\* A run that went through every step, up to the state write.
C17_Witness ==
    \E p \in Procs :
        /\ Done(p)
        /\ trace[p] = <<"template_read", "state_read", "lookup", "download", "login", "upload",
                        "post", "makedirs", "open_w", "state_write">>

\* C18: after a successful lookup the thumbnail url of the run is that of
\* the first tier, in the order maxres, high, medium, default, that has a
\* url; tiers that are missing or have no url are skipped; the url is absent
\* (None or empty, which main treats alike) exactly when no tier has one.
C18_ThumbnailPreference ==
    \A p \in Procs : (Has(p, "lookup") /\ ~Failed(p, "lookup")) =>
        LET th == resp[p].thumbs
            u == thumb_url[p]
        IN  /\ th["maxres"] = "url" => u = ThumbUrlOf["maxres"]
            /\ (th["maxres"] # "url" /\ th["high"] = "url") => u = ThumbUrlOf["high"]
            /\ (th["maxres"] # "url" /\ th["high"] # "url" /\ th["medium"] = "url") =>
                   u = ThumbUrlOf["medium"]
            /\ (th["maxres"] # "url" /\ th["high"] # "url" /\ th["medium"] # "url"
                  /\ th["default"] = "url") => u = ThumbUrlOf["default"]
            /\ ~Truthy(u) <=> (\A t \in DOMAIN th : th[t] # "url")

\* maxres is missing, high has no url, medium and default have one: the
\* lookup returned the url of medium.
C18_Witness ==
    \E p \in Procs :
        /\ Has(p, "lookup")
        /\ resp[p].thumbs = [maxres |-> "missing", high |-> "nourl",
                             medium |-> "url", default |-> "url"]
        /\ thumb_url[p] = ThumbUrlOf["medium"]

\* The accepted posts so far, as positions in the log.
PostedAt == {i \in 1..Len(log) : log[i].ev = "posted"}

\* The id of the most recent accepted post, or the initial marker.
LastPublished ==
    IF PostedAt = {} THEN Marker(initFile)
    ELSE log[CHOOSE i \in PostedAt : \A j \in PostedAt : j <= i].id

\* C19: with a state path that can be written, whenever no run is in
\* progress the stored marker is the id of the most recent accepted post, or
\* the initial marker when there is none, and two consecutive accepted posts
\* never carry the same id.
C19_MarkerIsLastPublished ==
    (statePath = "nested" /\ \A p \in Procs : Idle(p)) =>
        /\ Marker(stateFile) = LastPublished
        /\ \A i, j \in PostedAt :
             (i < j /\ \A k \in PostedAt : ~(i < k /\ k < j)) => log[i].id # log[j].id

\* Two runs published different broadcasts, the marker is the later one.
C19_Witness ==
    /\ statePath = "nested"
    /\ \A p \in Procs : Idle(p)
    /\ \E i, j \in PostedAt : i < j /\ log[i].id = "a" /\ log[j].id = "b"
    /\ Marker(initFile) = None
    /\ Marker(stateFile) = "b"

\* The mapping a run loaded from the state file it found.
Loaded(p) == IF file0[p].kind = "map" THEN file0[p].val ELSE EmptyMap

\* C20: a run that notified and persisted leaves a state file holding the
\* keys it loaded and the marker; the marker is the broadcast id and every
\* other key has the value it was loaded with.
C20_OtherKeysPreserved ==
    \A p \in Procs : (Done(p) /\ decision[p] = "notify" /\ code[p] = ExitOk) =>
        /\ file1[p].kind = "map"
        /\ DOMAIN file1[p].val = DOMAIN Loaded(p) \cup {MarkerKey}
        /\ file1[p].val[MarkerKey] = live_video_id[p]
        /\ \A k \in DOMAIN Loaded(p) \ {MarkerKey} : file1[p].val[k] = Loaded(p)[k]

\* The file held the marker "a" and another key; the run wrote the marker
\* "b" and the other key as it was.
C20_Witness ==
    \E p \in Procs :
        /\ Done(p) /\ decision[p] = "notify" /\ code[p] = ExitOk
        /\ file0[p] = FileOf("map", MapWithOther("a"))
        /\ file1[p].val[MarkerKey] = "b"
        /\ file1[p].val[OtherKey] = "cron"

====
